---- MODULE Spec2Model ----
(***************************************************************************)
(* A model of student_code.py: SortableDigraph (node/edge storage and      *)
(* Kahn's topological sort), TraversableDigraph (dfs, bfs) and DAG (edge   *)
(* insertion that refuses to close a cycle).                               *)
(*                                                                         *)
(* A Python dict is modelled as the sequence of its <<key, value>> pairs   *)
(* in insertion order, which is the order Python iterates it in.  Node     *)
(* identifiers are opaque to the code (only equality and hashing are       *)
(* used), so the i-th node ever inserted is named i: an argument of a call *)
(* is either a node already in the graph or the next unused number.        *)
(***************************************************************************)
EXTENDS Integers, Sequences, FiniteSets, TLC

VARIABLES
    cls,          \* the class of the object: TraversableDigraph or DAG
    adj,          \* self.adj
    node_values,  \* self.node_values
    call,         \* the last call made on the object, with its arguments
    result,       \* what that call returned or raised
    old_weight,   \* history: the weight adj[start][end] held before an add_edge call, 0 if none
    calls,        \* the number of mutating calls made
    queries       \* the number of queries made

vars == <<cls, adj, node_values, call, result, old_weight, calls, queries>>

\* The number of mutating calls (add_node, add_edge) in one run of the model.
MaxCalls == 4

\* The number of node identifiers the callers use.
MaxNodes == 4

\* The number of queries (top_sort, dfs, bfs) in one run of the model; a query
\* leaves the graph as it is, so it can come after any prefix of the mutations.
MaxQueries == 1

\* The default of add_edge's edge_weight parameter.
DefaultWeight == 1

\* The weights a caller passes explicitly.
GivenWeights == {9}

\* The values a caller passes to add_node; None is "no value".
None == "None"
GivenValues == {"v"}

Classes == {"TraversableDigraph", "DAG"}

(***************************************************************************)
(* Python dicts and lists.                                                 *)
(***************************************************************************)
DictKeys(d) == [i \in 1..Len(d) |-> d[i][1]]

DictHas(d, k) == \E i \in 1..Len(d) : d[i][1] = k

DictGet(d, k, default) ==
    IF DictHas(d, k)
    THEN d[CHOOSE i \in 1..Len(d) : d[i][1] = k][2]
    ELSE default

DictSet(d, k, v) ==
    IF DictHas(d, k)
    THEN [i \in 1..Len(d) |-> IF d[i][1] = k THEN <<k, v>> ELSE d[i]]
    ELSE Append(d, <<k, v>>)

Last(s) == s[Len(s)]

Front(s) == SubSeq(s, 1, Len(s) - 1)

Range(s) == {s[i] : i \in 1..Len(s)}

(***************************************************************************)
(* SortableDigraph                                                         *)
(***************************************************************************)
\* The graph: the two attributes of the object.
Graph(a, nv) == [adj |-> a, node_values |-> nv]

add_node(g, node, value) ==
    LET a1 == IF ~DictHas(g.adj, node) THEN DictSet(g.adj, node, <<>>) ELSE g.adj
        nv1 == IF value # None THEN DictSet(g.node_values, node, value)
               ELSE g.node_values
    IN  Graph(a1, nv1)

\* Mutant: the weight of an edge already stored is kept (setdefault).
add_edge_keep_first(g, start, end, edge_weight) ==
    LET g1 == IF ~DictHas(g.adj, start) THEN add_node(g, start, None) ELSE g
        g2 == IF ~DictHas(g1.adj, end) THEN add_node(g1, end, None) ELSE g1
        row == DictGet(g2.adj, start, <<>>)
    IN  Graph(DictSet(g2.adj, start,
                      IF DictHas(row, end) THEN row ELSE DictSet(row, end, edge_weight)),
              g2.node_values)

\* Mutant: the end node is not created.
add_edge_no_end_node(g, start, end, edge_weight) ==
    LET g1 == IF ~DictHas(g.adj, start) THEN add_node(g, start, None) ELSE g
    IN  Graph(DictSet(g1.adj, start, DictSet(DictGet(g1.adj, start, <<>>), end, edge_weight)),
              g1.node_values)

add_edge(g, start, end, edge_weight) ==
    LET g1 == IF ~DictHas(g.adj, start) THEN add_node(g, start, None) ELSE g
        g2 == IF ~DictHas(g1.adj, end) THEN add_node(g1, end, None) ELSE g1
    IN  Graph(DictSet(g2.adj, start, DictSet(DictGet(g2.adj, start, <<>>), end, edge_weight)),
              g2.node_values)

get_nodes(a) == DictKeys(a)

\* Lines 57-60: the in-degree dict, keyed in the order of self.adj.
RECURSIVE CountRow(_, _)
CountRow(indegree, row) ==
    IF row = <<>> THEN indegree
    ELSE LET v == Head(row)[1]
         IN  CountRow(DictSet(indegree, v, DictGet(indegree, v, 0) + 1), Tail(row))

RECURSIVE CountRows(_, _)
CountRows(indegree, a) ==
    IF a = <<>> THEN indegree
    ELSE CountRows(CountRow(indegree, Head(a)[2]), Tail(a))

InDegree(a) == CountRows([i \in 1..Len(a) |-> <<a[i][1], 0>>], a)

\* Mutant: the seed is not filtered on d == 0.
ZeroInDegree_unfiltered(indegree) == DictKeys(indegree)

\* Line 62: the queue is seeded in the iteration order of the in-degree dict.
ZeroInDegree(indegree) == DictKeys(SelectSeq(indegree, LAMBDA p : p[2] = 0))

\* Lines 68-71: the scan of the successors of the node just dequeued.
RECURSIVE KahnScan(_, _)
KahnScan(st, row) ==
    IF row = <<>> THEN st
    ELSE LET v == Head(row)[1]
             d == DictGet(st.indegree, v, 0) - 1
         IN  KahnScan([indegree |-> DictSet(st.indegree, v, d),
                       queue |-> IF d = 0 THEN Append(st.queue, v) ELSE st.queue],
                      Tail(row))

\* Mutant: queue.pop() instead of queue.popleft().
RECURSIVE KahnLoop_lifo(_, _, _, _)
KahnLoop_lifo(a, indegree, queue, order) ==
    IF queue = <<>> THEN order
    ELSE LET u == Last(queue)
             st == KahnScan([indegree |-> indegree, queue |-> Front(queue)],
                            DictGet(a, u, <<>>))
         IN  KahnLoop_lifo(a, st.indegree, st.queue, Append(order, u))

\* Lines 65-71: the while loop; popleft takes the head of the queue.
RECURSIVE KahnLoop(_, _, _, _)
KahnLoop(a, indegree, queue, order) ==
    IF queue = <<>> THEN order
    ELSE LET u == Head(queue)
             st == KahnScan([indegree |-> indegree, queue |-> Tail(queue)],
                            DictGet(a, u, <<>>))
         IN  KahnLoop(a, st.indegree, st.queue, Append(order, u))

\* The return value of a call: status "ok" with the value returned (the empty
\* sequence for None), or the exception raised.
Returned(v) == [status |-> "ok", value |-> v]
Raised(e) == [status |-> e, value |-> <<>>]

\* Mutant: the length check is missing.
top_sort_unchecked(a) ==
    LET indegree == InDegree(a)
    IN  Returned(KahnLoop(a, indegree, ZeroInDegree(indegree), <<>>))

top_sort(a) ==
    LET indegree == InDegree(a)
        order == KahnLoop(a, indegree, ZeroInDegree(indegree), <<>>)
    IN  IF Len(order) # Len(a) THEN Raised("ValueError") ELSE Returned(order)

(***************************************************************************)
(* TraversableDigraph                                                      *)
(***************************************************************************)
\* Lines 93-96 and 128-131: push the neighbours not yet visited, marking them.
RECURSIVE PushUnvisited(_, _)
PushUnvisited(st, row) ==
    IF row = <<>> THEN st
    ELSE LET neighbor == Head(row)[1]
         IN  IF neighbor \notin st.visited
             THEN PushUnvisited([st EXCEPT !.visited = @ \cup {neighbor},
                                           !.stack = Append(@, neighbor)],
                                Tail(row))
             ELSE PushUnvisited(st, Tail(row))

\* Lines 88-96: the while loop of dfs; stack.pop() takes the last element.
RECURSIVE DfsLoop(_, _, _)
DfsLoop(a, start, st) ==
    IF st.stack = <<>> THEN st
    ELSE LET node == Last(st.stack)
             emit == node \notin Range(st.stack_path) /\ node # start
             st1 == [st EXCEPT !.stack = Front(@),
                               !.out = IF emit THEN Append(@, node) ELSE @,
                               !.stack_path = Append(@, node),
                               !.pops = @ + 1]
         IN  DfsLoop(a, start, PushUnvisited(st1, DictGet(a, node, <<>>)))

\* The sequence the generator yields, and the number of loop iterations it ran.
dfs(a, start) ==
    LET st == DfsLoop(a, start, [visited |-> {start}, stack |-> <<start>>,
                                 stack_path |-> <<>>, out |-> <<>>, pops |-> 0])
    IN  [out |-> st.out, pops |-> st.pops]

\* Lines 104-108: enqueue and yield the neighbours not yet visited.
RECURSIVE BfsScan(_, _)
BfsScan(st, row) ==
    IF row = <<>> THEN st
    ELSE LET neighbor == Head(row)[1]
         IN  IF neighbor \notin st.visited
             THEN BfsScan([st EXCEPT !.visited = @ \cup {neighbor},
                                     !.queue = Append(@, neighbor),
                                     !.out = Append(@, neighbor)],
                          Tail(row))
             ELSE BfsScan(st, Tail(row))

\* Lines 102-108: the while loop of bfs; popleft takes the head of the queue.
RECURSIVE BfsLoop(_, _)
BfsLoop(a, st) ==
    IF st.queue = <<>> THEN st
    ELSE LET node == Head(st.queue)
             st1 == [st EXCEPT !.queue = Tail(@), !.pops = @ + 1]
         IN  BfsLoop(a, BfsScan(st1, DictGet(a, node, <<>>)))

\* Mutant: start is not marked visited.
bfs_start_unmarked(a, start) ==
    LET st == BfsLoop(a, [visited |-> {}, queue |-> <<start>>,
                          out |-> <<>>, pops |-> 0])
    IN  [out |-> st.out, pops |-> st.pops]

\* Mutant: the traversal is depth-first.
bfs_depth_first(a, start) == dfs(a, start)

bfs(a, start) ==
    LET st == BfsLoop(a, [visited |-> {start}, queue |-> <<start>>,
                          out |-> <<>>, pops |-> 0])
    IN  [out |-> st.out, pops |-> st.pops]

(***************************************************************************)
(* DAG                                                                     *)
(***************************************************************************)
\* Lines 124-132: the while loop of _reachable.
RECURSIVE ReachableLoop(_, _, _)
ReachableLoop(a, target, st) ==
    IF st.stack = <<>> THEN FALSE
    ELSE LET node == Last(st.stack)
         IN  IF node = target THEN TRUE
             ELSE ReachableLoop(a, target,
                      PushUnvisited([st EXCEPT !.stack = Front(@)],
                                    DictGet(a, node, <<>>)))

\* Mutant: the search starts at the neighbours, so a node does not reach itself.
_reachable_strict(a, start, target) ==
    ReachableLoop(a, target,
                  PushUnvisited([visited |-> {}, stack |-> <<>>], DictGet(a, start, <<>>)))

_reachable(a, start, target) ==
    ReachableLoop(a, target, [visited |-> {}, stack |-> <<start>>])

\* Mutant: the reachability check runs from start to end.
DAG_add_edge_swapped(g, start, end, edge_weight) ==
    IF _reachable(g.adj, start, end)
    THEN [graph |-> g, result |-> Raised("ValueError")]
    ELSE [graph |-> add_edge(g, start, end, edge_weight), result |-> Returned(<<>>)]

\* Mutant: the endpoints are created before the check.
DAG_add_edge_nodes_first(g, start, end, edge_weight) ==
    LET g1 == add_node(add_node(g, start, None), end, None)
    IN  IF _reachable(g1.adj, end, start)
        THEN [graph |-> g1, result |-> Raised("ValueError")]
        ELSE [graph |-> add_edge(g1, start, end, edge_weight), result |-> Returned(<<>>)]

\* DAG.add_edge: the graph after the call and what the call returned.
DAG_add_edge(g, start, end, edge_weight) ==
    IF _reachable(g.adj, end, start)
    THEN [graph |-> g, result |-> Raised("ValueError")]
    ELSE [graph |-> add_edge(g, start, end, edge_weight), result |-> Returned(<<>>)]

(***************************************************************************)
(* The object and the calls on it.                                         *)
(***************************************************************************)
NoCall == [op |-> "__init__", start |-> 0, end |-> 0, edge_weight |-> 0,
           defaulted |-> FALSE, value |-> None]

\* A call names a node of the graph or the next unused identifier.
NextNode(a) == Len(a) + 1

Max(x, y) == IF x >= y THEN x ELSE y

Min(x, y) == IF x <= y THEN x ELSE y

\* The identifiers a mutating call may name as its first node, and as its second
\* node given the first.
FirstArgs == 1..Min(NextNode(adj), MaxNodes)

SecondArgs(start) == 1..Min(Max(Len(adj), start) + 1, MaxNodes)

Init ==
    /\ cls \in Classes
    /\ adj = <<>>
    /\ node_values = <<>>
    /\ call = NoCall
    /\ result = Returned(<<>>)
    /\ old_weight = 0
    /\ calls = 0
    /\ queries = 0

AddNode(node, value) ==
    /\ calls < MaxCalls
    /\ LET g == add_node(Graph(adj, node_values), node, value)
       IN  /\ adj' = g.adj
           /\ node_values' = g.node_values
    /\ call' = [NoCall EXCEPT !.op = "add_node", !.start = node, !.value = value]
    /\ result' = Returned(<<>>)
    /\ old_weight' = 0
    /\ calls' = calls + 1
    /\ UNCHANGED <<cls, queries>>

\* add_edge dispatches on the class of the object: DAG overrides it.
AddEdge(start, end, edge_weight, defaulted) ==
    /\ calls < MaxCalls
    /\ LET r == IF cls = "DAG"
                THEN DAG_add_edge(Graph(adj, node_values), start, end, edge_weight)
                ELSE [graph |-> add_edge(Graph(adj, node_values), start, end, edge_weight),
                      result |-> Returned(<<>>)]
       IN  /\ adj' = r.graph.adj
           /\ node_values' = r.graph.node_values
           /\ result' = r.result
    /\ call' = [NoCall EXCEPT !.op = "add_edge", !.start = start, !.end = end,
                              !.edge_weight = edge_weight, !.defaulted = defaulted]
    /\ old_weight' = DictGet(DictGet(adj, start, <<>>), end, 0)
    /\ calls' = calls + 1
    /\ UNCHANGED <<cls, queries>>

TopSort ==
    /\ queries < MaxQueries
    /\ queries' = queries + 1
    /\ call' = [NoCall EXCEPT !.op = "top_sort"]
    /\ result' = top_sort(adj)
    /\ old_weight' = 0
    /\ UNCHANGED <<cls, adj, node_values, calls>>

Dfs(start) ==
    /\ queries < MaxQueries
    /\ queries' = queries + 1
    /\ call' = [NoCall EXCEPT !.op = "dfs", !.start = start]
    /\ LET r == dfs(adj, start)
       IN  result' = [status |-> "ok", value |-> r.out, pops |-> r.pops]
    /\ old_weight' = 0
    /\ UNCHANGED <<cls, adj, node_values, calls>>

Bfs(start) ==
    /\ queries < MaxQueries
    /\ queries' = queries + 1
    /\ call' = [NoCall EXCEPT !.op = "bfs", !.start = start]
    /\ LET r == bfs(adj, start)
       IN  result' = [status |-> "ok", value |-> r.out, pops |-> r.pops]
    /\ old_weight' = 0
    /\ UNCHANGED <<cls, adj, node_values, calls>>

Next ==
    \/ \E node \in FirstArgs, value \in GivenValues \cup {None} :
          AddNode(node, value)
    \/ \E start \in FirstArgs :
          \E end \in SecondArgs(start) :
             \/ \E w \in GivenWeights : AddEdge(start, end, w, FALSE)
             \/ AddEdge(start, end, DefaultWeight, TRUE)
    \/ TopSort
    \/ \E start \in 1..NextNode(adj) : Dfs(start)
    \/ \E start \in 1..NextNode(adj) : Bfs(start)

Spec == Init /\ [][Next]_vars

\* The same calls on an object of one class.
SpecBase == (Init /\ cls = "TraversableDigraph") /\ [][Next]_vars

SpecDAG == (Init /\ cls = "DAG") /\ [][Next]_vars

(***************************************************************************)
(* Graph theory, stated on sets and independently of the algorithms above. *)
(***************************************************************************)
Row(a, u) == DictGet(a, u, <<>>)

Succ(a, u) == {Row(a, u)[j][1] : j \in 1..Len(Row(a, u))}

NodeSet(a) == Range(DictKeys(a))

EdgeSet(a) == UNION {{<<a[i][1], a[i][2][j][1]>> : j \in 1..Len(a[i][2])} : i \in 1..Len(a)}

\* Every identifier that occurs in the graph, as a key or as an edge endpoint.
Mentioned(a) == NodeSet(a) \cup {e[2] : e \in EdgeSet(a)}

RECURSIVE Closure(_, _)
Closure(a, S) ==
    LET T == S \cup UNION {Succ(a, x) : x \in S}
    IN  IF T = S THEN S ELSE Closure(a, T)

\* The nodes reachable from u by a path of one or more edges / zero or more edges.
ReachPlus(a, u) == Closure(a, Succ(a, u))
ReachStar(a, u) == ReachPlus(a, u) \cup {u}

HasCycle(a) == \E u \in Mentioned(a) : u \in ReachPlus(a, u)

\* The nodes within k edges of s, and the shortest hop distance from s to v
\* (more than the number of nodes when v is not reachable).
RECURSIVE Within(_, _, _)
Within(a, s, k) ==
    IF k = 0 THEN {s}
    ELSE LET W == Within(a, s, k - 1) IN W \cup UNION {Succ(a, x) : x \in W}

Dist(a, s, v) ==
    IF v \in Within(a, s, Len(a))
    THEN CHOOSE k \in 0..Len(a) :
            v \in Within(a, s, k) /\ (k = 0 \/ v \notin Within(a, s, k - 1))
    ELSE Len(a) + 1

Injective(s) == \A i, j \in 1..Len(s) : s[i] = s[j] => i = j

IsPermutation(s, t) ==
    Len(s) = Len(t) /\ Range(s) = Range(t) /\ Injective(s)

\* The position of x in a sequence without repetitions that holds it.
Pos(s, x) == CHOOSE i \in 1..Len(s) : s[i] = x

\* The weights stored for the ordered pair (u, v), one per entry of the row.
EdgeEntries(a, u, v) ==
    LET at == {i \in 1..Len(a) : a[i][1] = u}
    IN  SelectSeq(IF at = {} THEN <<>> ELSE a[CHOOSE i \in at : TRUE][2],
                  LAMBDA p : p[1] = v)

EdgeWeights(a, u, v) == [i \in 1..Len(EdgeEntries(a, u, v)) |-> EdgeEntries(a, u, v)[i][2]]

\* Each key occurs once in adj and once in each row: adj is a dict of dicts.
WellFormed(a) ==
    /\ Injective(DictKeys(a))
    /\ \A i \in 1..Len(a) : Injective(DictKeys(a[i][2]))

(***************************************************************************)
(* The claims.                                                             *)
(***************************************************************************)
IsAddEdge == call.op = "add_edge"
Accepted == result.status = "ok"
Rejected == result.status = "ValueError"

\* C1: on a DAG object the stored edge relation never contains a cycle, after
\* every add_node and add_edge call, accepted or rejected: no node reaches
\* itself by one or more edges (a self-loop is a cycle).
C1_DagStaysAcyclic == cls = "DAG" => ~HasCycle(adj)

\* C1's case: a DAG that has accepted the four edges of the diamond.
C1_Witness ==
    /\ cls = "DAG" /\ IsAddEdge /\ Accepted
    /\ EdgeSet(adj) = {<<1, 2>>, <<1, 3>>, <<2, 4>>, <<3, 4>>}

\* C2: a DAG.add_edge call rejected with the would-create-cycle error leaves the
\* graph exactly as it was: same adjacency dict (nodes in the same order, no
\* endpoint created, same edges and weights) and same node values.
C2_RejectedLeavesGraph ==
    [][(cls = "DAG" /\ call'.op = "add_edge" /\ result'.status = "ValueError")
        => (adj' = adj /\ node_values' = node_values)]_vars

\* C2's case: with 1 -> 2 and 2 -> 3, add_edge(3, 1) has just been rejected.
C2_Witness ==
    /\ cls = "DAG" /\ IsAddEdge /\ Rejected
    /\ call.start = 3 /\ call.end = 1
    /\ EdgeSet(adj) = {<<1, 2>>, <<2, 3>>}
    /\ DictKeys(adj) = <<1, 2, 3>>

\* C3: on an acyclic graph top_sort succeeds and returns a permutation of
\* get_nodes() in which u comes before v for every stored edge u -> v.
C3_TopSortOrders ==
    (call.op = "top_sort" /\ ~HasCycle(adj)) =>
        /\ Accepted
        /\ IsPermutation(result.value, get_nodes(adj))
        /\ \A e \in EdgeSet(adj) : Pos(result.value, e[1]) < Pos(result.value, e[2])

\* C3's case: top_sort has run on an acyclic graph with edges and an isolated node.
C3_Witness ==
    /\ call.op = "top_sort" /\ ~HasCycle(adj)
    /\ Cardinality(EdgeSet(adj)) >= 2
    /\ \E u \in NodeSet(adj) : Succ(adj, u) = {} /\ \A e \in EdgeSet(adj) : e[2] # u

\* C4: on a graph with a cycle (a self-loop, or a cycle that is only a part of
\* the graph) top_sort raises the cycle error and returns no order.
C4_TopSortRejectsCycle ==
    (call.op = "top_sort" /\ HasCycle(adj)) => (Rejected /\ result.value = <<>>)

\* C4's case: top_sort has run on a graph with a cycle and a node that neither
\* lies on a cycle nor is reached from one.
C4_Witness ==
    /\ call.op = "top_sort" /\ HasCycle(adj)
    /\ \E u \in NodeSet(adj) :
          /\ u \notin ReachPlus(adj, u)
          /\ \A v \in NodeSet(adj) : v \in ReachPlus(adj, v) => u \notin ReachPlus(adj, v)
          /\ Succ(adj, u) # {}

\* C5: dfs(start) and bfs(start) terminate (one loop iteration per node
\* yielded, plus one for start) and yield exactly the nodes reachable from start
\* by one or more edges, start excluded, each once; nothing when start is not a
\* node of the graph.
C5_TraversalYieldsReachable ==
    call.op \in {"dfs", "bfs"} =>
        /\ Range(result.value) = ReachPlus(adj, call.start) \ {call.start}
        /\ Injective(result.value)
        /\ result.pops = Len(result.value) + 1
        /\ (call.start \notin NodeSet(adj) => result.value = <<>>)

\* C5's case: dfs from a node on a cycle that leads back to it.
C5_Witness ==
    /\ call.op = "dfs"
    /\ call.start \in ReachPlus(adj, call.start)
    /\ Len(result.value) >= 2

C6_State ==
    /\ WellFormed(adj)
    /\ IsAddEdge =>
          /\ EdgeWeights(adj, call.start, call.end)
               = <<IF call.defaulted THEN 1 ELSE call.edge_weight>>

\* The entries of the row of u that are not the edge start -> end.
OtherEntries(a, u, start, end) ==
    IF u = start THEN SelectSeq(Row(a, u), LAMBDA p : p[1] # end) ELSE Row(a, u)

C6_Step ==
    call'.op = "add_edge" =>
        \A u \in NodeSet(adj) \cup NodeSet(adj') :
            OtherEntries(adj', u, call'.start, call'.end)
              = OtherEntries(adj, u, call'.start, call'.end)

\* C6: on the base graph, after add_edge(start, end, w) there is exactly one
\* edge start -> end and its weight is w (1 when omitted); no row ever holds two
\* entries for one neighbour; and the call changes no other edge or weight.
C6_AddEdgeOverwrites ==
    [](cls = "TraversableDigraph" => C6_State)
    /\ [][cls = "TraversableDigraph" => C6_Step]_vars

\* C6's case: the edge 1 -> 2 held the default weight and add_edge(1, 2, 9) has
\* overwritten it, beside another edge.
C6_Witness ==
    /\ cls = "TraversableDigraph" /\ IsAddEdge
    /\ call.start = 1 /\ call.end = 2 /\ call.edge_weight = 9
    /\ old_weight = 1
    /\ Cardinality(EdgeSet(adj)) >= 2

\* C7: every node that is the start or the end of a stored edge is a key of adj
\* (so get_nodes() returns it), and after an accepted add_edge both of its
\* endpoints are.
C7_EndpointsAreNodes ==
    /\ \A e \in EdgeSet(adj) : e[1] \in Range(get_nodes(adj)) /\ e[2] \in Range(get_nodes(adj))
    /\ (IsAddEdge /\ Accepted) =>
          /\ call.start \in Range(get_nodes(adj))
          /\ call.end \in Range(get_nodes(adj))
          /\ <<call.start, call.end>> \in EdgeSet(adj)

\* C7's case: two add_edge calls, each naming two nodes the graph did not have.
C7_Witness ==
    /\ IsAddEdge /\ Accepted /\ calls = 2
    /\ get_nodes(adj) = <<1, 2, 3, 4>>
    /\ call.start = 3 /\ call.end = 4

\* The predecessors of v, and the two sort keys of C8.
Preds(a, v) == {u \in NodeSet(a) : v \in Succ(a, u)}

Released(a, ord, v) ==
    IF Preds(a, v) = {} THEN 0
    ELSE CHOOSE k \in 1..Len(ord) :
            /\ ord[k] \in Preds(a, v)
            /\ \A u \in Preds(a, v) : Pos(ord, u) <= k

Rank(a, ord, v) ==
    IF Released(a, ord, v) = 0 THEN Pos(DictKeys(a), v)
    ELSE Pos(DictKeys(Row(a, ord[Released(a, ord, v)])), v)

KahnFifoOrder(a, ord) ==
    /\ IsPermutation(ord, DictKeys(a))
    /\ \A i, j \in 1..Len(ord) :
          i < j =>
             \/ Released(a, ord, ord[i]) < Released(a, ord, ord[j])
             \/ /\ Released(a, ord, ord[i]) = Released(a, ord, ord[j])
                /\ Rank(a, ord, ord[i]) < Rank(a, ord, ord[j])

\* C8: on an acyclic graph top_sort returns the order of Kahn's algorithm with a
\* FIFO queue.  A node enters the queue when the last of its predecessors is
\* dequeued (released = that predecessor's position in the order; 0 for a node
\* without predecessors, which is in the seed); among the nodes released
\* together the seed is in node insertion order and the others in the adjacency
\* order of the node that released them.  The order returned is sorted by
\* (released, rank).
C8_TopSortIsKahnFifo ==
    (call.op = "top_sort" /\ ~HasCycle(adj)) =>
        /\ Accepted
        /\ KahnFifoOrder(adj, result.value)
        /\ (DictKeys(adj) = <<1, 2, 3, 4>>
              /\ EdgeSet(adj) = {<<1, 2>>, <<1, 3>>, <<2, 4>>, <<3, 4>>}
              /\ DictKeys(Row(adj, 1)) = <<2, 3>>)
           => result.value = <<1, 2, 3, 4>>

\* C8's case: the diamond 1 -> 2, 1 -> 3, 2 -> 4, 3 -> 4 sorted as 1, 2, 3, 4.
C8_Witness ==
    /\ call.op = "top_sort"
    /\ DictKeys(adj) = <<1, 2, 3, 4>>
    /\ EdgeSet(adj) = {<<1, 2>>, <<1, 3>>, <<2, 4>>, <<3, 4>>}
    /\ DictKeys(Row(adj, 1)) = <<2, 3>>
    /\ result.value = <<1, 2, 3, 4>>

\* C9: bfs(start) yields nodes in non-decreasing order of their shortest hop
\* distance from start.
C9_BfsByDistance ==
    call.op = "bfs" =>
        \A i, j \in 1..Len(result.value) :
            i < j => Dist(adj, call.start, result.value[i])
                       <= Dist(adj, call.start, result.value[j])

\* C9's case: bfs(1) on the diamond yields 2, 3, then 4.
C9_Witness ==
    /\ call.op = "bfs" /\ call.start = 1
    /\ EdgeSet(adj) = {<<1, 2>>, <<1, 3>>, <<2, 4>>, <<3, 4>>}
    /\ DictKeys(Row(adj, 1)) = <<2, 3>>
    /\ result.value = <<2, 3, 4>>

C10_Step ==
    call'.op = "add_edge" =>
        /\ result'.status = "ValueError" <=> call'.start \in ReachStar(adj, call'.end)
        /\ result'.status # "ValueError" =>
              /\ result'.status = "ok"
              /\ EdgeWeights(adj', call'.start, call'.end) = <<call'.edge_weight>>
        /\ <<call'.start, call'.end>> \in EdgeSet(adj) => result'.status = "ok"

\* C10: DAG.add_edge(start, end, w) is rejected exactly when, in the graph
\* before the call, start is reachable from end by zero or more edges; otherwise
\* the edge is stored with weight w; re-adding an edge the DAG holds is never
\* rejected and overwrites its weight.
C10_DagRejectsIffReachable == [][cls = "DAG" => C10_Step]_vars

\* C10's case: the DAG held 1 -> 2 with the default weight and another edge, and
\* add_edge(1, 2, 9) was accepted.
C10_Witness ==
    /\ cls = "DAG" /\ IsAddEdge /\ Accepted
    /\ call.start = 1 /\ call.end = 2 /\ call.edge_weight = 9
    /\ old_weight = 1
    /\ <<2, 3>> \in EdgeSet(adj)

====
